---- MODULE Spec2Model ----
(***************************************************************************)
(* A state-machine model of scraper.py: the asyncio crawl of the paper     *)
(* index (main), the per-paper tasks (process_paper), the shared           *)
(* semaphore (fetch_html, download_pdf), the PDF store (download_pdf) and  *)
(* the CSV file (save_metadata).                                           *)
(*                                                                         *)
(* asyncio runs one coroutine at a time and switches only at an await, so  *)
(* each action below is the code between two suspension points.            *)
(***************************************************************************)
EXTENDS Integers, Sequences, FiniteSets

----------------------------------------------------------------------------
(* Bounds of the model. *)

\* crawl runs (executions of main) over the same working directory
MaxRuns == 2
\* anchors matched on the year index page
MaxYearLinks == 3
\* anchors matched on one year listing page
MaxPaperLinks == 3
\* paper links the site serves over all runs together
MaxLinks == 3
\* chunk_size of main (scraper.py:209), scaled down from 50
ChunkSize == 2
\* MAX_CONCURRENT_REQUESTS (scraper.py:15), scaled down from 3
MAX_CONCURRENT_REQUESTS == 1
\* YEARS_TO_SCRAPE (scraper.py:22), scaled down from 5
YEARS_TO_SCRAPE == 2

\* name[:200] of sanitize_filename
FilenameCap == 200

----------------------------------------------------------------------------
(* The site. *)

\* year listing URLs; a larger number sorts later as a string
YearUrls == {1, 2}
\* paper page URLs
PaperUrls == {1, 2}
\* PDF URLs found on paper pages; NoPdf is pdf_url = None
NoPdf == 0
PdfUrls == {1, 2}

\* the body served for a PDF URL: bodies of different lengths
Body(u) == IF u = 1 THEN <<1>> ELSE <<2, 2>>

\* the sequences of at most n elements of S
SeqsUpTo(S, n) == UNION {[1..k -> S] : k \in 0..n}

Min(a, b) == IF a <= b THEN a ELSE b

----------------------------------------------------------------------------
(* String functions.  A text is a sequence of characters; "AC" stands for  *)
(* the literal text "Abstract-Conference", "/" for a character that        *)
(* sanitize_filename forbids, "U" for the text "Unknown Title".            *)

IsSpace(c) == c = " "

\* str.strip(): drop leading and trailing whitespace
RECURSIVE LStrip(_)
LStrip(s) == IF s # <<>> /\ IsSpace(Head(s)) THEN LStrip(Tail(s)) ELSE s

RECURSIVE RStrip(_)
RStrip(s) ==
    IF s # <<>> /\ IsSpace(s[Len(s)]) THEN RStrip(SubSeq(s, 1, Len(s) - 1)) ELSE s

Strip(s) == RStrip(LStrip(s))

\* index of the first non-space character at or after i (Len(s)+1 if none)
RECURSIVE SkipSpaces(_, _)
SkipSpaces(s, i) ==
    IF i <= Len(s) /\ IsSpace(s[i]) THEN SkipSpaces(s, i + 1) ELSE i

\* the pattern \s*-\s*Abstract-Conference.*$ matches starting at i
SuffixMatchesAt(s, i) ==
    LET d == SkipSpaces(s, i)
        a == SkipSpaces(s, d + 1)
    IN  /\ d <= Len(s) /\ s[d] = "-"
        /\ a <= Len(s) /\ s[a] = "AC"

\* re.sub(r'\s*-\s*Abstract-Conference.*$', '', title): the leftmost match
\* runs to the end of the text and is removed
StripSuffix(s) ==
    LET starts == {i \in 1..Len(s) : SuffixMatchesAt(s, i)}
    IN  IF starts = {} THEN s
        ELSE LET first == CHOOSE i \in starts : \A j \in starts : i <= j
             IN  SubSeq(s, 1, first - 1)

\* re.sub(r'[\\/*?:"<>|]', "_", name)[:200]
sanitize_filename(name) ==
    LET repl == [i \in 1..Len(name) |-> IF name[i] = "/" THEN "_" ELSE name[i]]
    IN  SubSeq(repl, 1, Min(Len(repl), FilenameCap))

\* sorted(links, reverse=True)
RECURSIVE InsertDesc(_, _)
InsertDesc(x, s) ==
    IF s = <<>> THEN <<x>>
    ELSE IF x >= Head(s) THEN <<x>> \o s
    ELSE <<Head(s)>> \o InsertDesc(x, Tail(s))

\* (variant: the links are taken in page order)
SortDesc_PageOrder(s) == s

RECURSIVE SortDesc(_)
SortDesc(s) == IF s = <<>> THEN <<>> ELSE InsertDesc(Head(s), SortDesc(Tail(s)))

----------------------------------------------------------------------------
(* Paper pages. *)

UnknownTitle == <<"U">>

\* what soup.find(tag) gives: no tag, or a tag with its text
NoTag == [present |-> FALSE, text |-> <<>>]
Tag(s) == [present |-> TRUE, text |-> s]

\* a parsed paper page: the <h2>, the <title>, the PDF anchor
Page(h2, head, pdf) == [h2 |-> h2, head |-> head, pdf |-> pdf]

\* the page shapes the site serves
Pages == {
    Page(Tag(<<" ", "x", "/", " ">>), Tag(<<"x", "/", " ", "-", " ", "AC">>), 1),
    Page(Tag(<<"x", "/">>), NoTag, 2),
    Page(Tag(<<>>), Tag(<<"x", "/">>), NoPdf),
    Page(Tag(<<" ">>), NoTag, NoPdf),
    Page(NoTag, Tag(<<"x", "/", " ", "-", " ", "AC", "x">>), 1),
    Page(NoTag, Tag(<<"x", "/", "-", "AC">>), 2),
    Page(NoTag, Tag(<<" ", "-", "AC">>), NoPdf),
    Page(NoTag, Tag(<<>>), NoPdf),
    Page(NoTag, NoTag, NoPdf) }

\* process_paper, lines 96-107
ExtractTitle(page) ==
    IF page.h2.present THEN Strip(page.h2.text)
    ELSE IF page.head.present THEN StripSuffix(Strip(page.head.text))
    ELSE UnknownTitle

----------------------------------------------------------------------------
(* State. *)

VARIABLES
    run,          \* number of the current execution of main
    mainPc,       \* where main is
    year_links,   \* main: the year links being processed
    yi,           \* main: position in year_links of the current year
    paper_links,  \* main: the paper links of the current year
    ci,           \* main: i, the start of the current chunk (0-based)
    tasks,        \* the process_paper tasks of the current chunk
    permits,      \* semaphore._value
    files,        \* downloaded_pdfs: filename -> content, for the files that exist
    csvExists,    \* os.path.isfile(CSV_FILE)
    csv,          \* the lines of papers.csv
    lastFetch,    \* main: how its latest fetch_html ended ("none" before any)
    nExpect,      \* history: paper links enumerated in this run, less the tasks
                  \* that ended without a row through a failure of their own
    fetchedOk,    \* history: paper URLs whose page fetch returned 200 in this run
    served,       \* history: paper links the site has served over all runs
    nSaved        \* history: save_metadata calls that wrote their row, over all runs

vars == <<run, mainPc, year_links, yi, paper_links, ci, tasks, permits, files,
          csvExists, csv, lastFetch, nExpect, fetchedOk, served, nSaved>>

mainVars == <<run, mainPc, year_links, yi, paper_links, ci, lastFetch>>
storeVars == <<files, csvExists, csv>>
histVars == <<nExpect, fetchedOk, served, nSaved>>

\* the ways a request fails: non-200 status, asyncio.TimeoutError, any other exception
FetchFailures == {"http_error", "timeout", "error"}

\* the csv header line, and the row of a metadata dict (of its columns, url
\* and title; run is a history tag telling which run appended the row)
Header == [kind |-> "header", url |-> 0, title |-> <<>>, run |-> 0]
Row(t) == [kind |-> "row", url |-> t.url, title |-> t.title, run |-> run]

\* a process_paper coroutine that has not run yet
NewTask(u) == [url |-> u, pc |-> "start", title |-> <<>>, pdf |-> NoPdf,
               res |-> "none", dl |-> "none"]

\* requests in flight: session.get issued, response not yet consumed
TaskInFlight(t) == t.pc \in {"fetching", "dl_req", "dl_read"}
MainInFlight == mainPc \in {"index_fetch", "listing_fetch"}
InFlight ==
    Cardinality({i \in 1..Len(tasks) : TaskInFlight(tasks[i])})
        + (IF MainInFlight THEN 1 ELSE 0)

Init ==
    /\ run = 1
    /\ mainPc = "start"
    /\ year_links = <<>>
    /\ yi = 1
    /\ paper_links = <<>>
    /\ ci = 0
    /\ tasks = <<>>
    /\ permits = MAX_CONCURRENT_REQUESTS
    /\ files = <<>>
    /\ csvExists = FALSE
    /\ csv = <<>>
    /\ lastFetch = "none"
    /\ nExpect = 0
    /\ fetchedOk = {}
    /\ served = 0
    /\ nSaved = 0

----------------------------------------------------------------------------
(* The semaphore. *)

\* (variant: the request is issued without passing the semaphore)
CanAcquire_Ungated == TRUE

\* Semaphore.acquire returns without waiting only while a permit is left
CanAcquire == permits > 0

Acquire == CanAcquire /\ permits' = permits - 1

\* (variant: an exit path that does not give the permit back)
Release_Leaks == permits' = permits

\* leaving "async with semaphore", on any path
Release == permits' = permits + 1

----------------------------------------------------------------------------
(* save_metadata. *)

\* (variant: the header is written without looking at file_exists)
CsvAfterSave_AlwaysHeader(row, ok) ==
    IF ~ok THEN csv ELSE csv \o <<[kind |-> "header", url |-> 0, title |-> <<>>, run |-> 0], row>>

\* the file after save_metadata(row); ok = FALSE is open() raising, which
\* the except clause logs and swallows
CsvAfterSave(row, ok) ==
    IF ~ok THEN csv
    ELSE IF csvExists THEN Append(csv, row)
    ELSE <<Header, row>>

save_metadata(row, ok) ==
    /\ csv' = CsvAfterSave(row, ok)
    /\ csvExists' = (csvExists \/ ok)
    /\ nSaved' = IF ok THEN nSaved + 1 ELSE nSaved

----------------------------------------------------------------------------
(* process_paper and download_pdf. *)

Filename(t) == sanitize_filename(t.title)

\* process_paper returns (or its except clause ends it) with result res
Returned(t, res) == [t EXCEPT !.pc = "done", !.res = res]

\* lines 142-144 after download_pdf ended with dl: save, then return
SaveAndReturn(i, t, dl, ok) ==
    /\ save_metadata(Row(t), ok)
    /\ tasks' = [tasks EXCEPT ![i] =
                    Returned([t EXCEPT !.dl = dl], IF ok THEN "saved" ELSE "save_failed")]
    /\ nExpect' = IF ok THEN nExpect ELSE nExpect - 1

\* (variant: a task that ends without a record writes a row all the same)
EndWithoutRow_SavesRow(i, res) ==
    /\ tasks' = [tasks EXCEPT ![i] = [@ EXCEPT !.pc = "done", !.res = res]]
    /\ nExpect' = nExpect - 1
    /\ csv' = (IF csvExists THEN csv ELSE <<[kind |-> "header", url |-> 0, title |-> <<>>, run |-> 0]>>)
                 \o <<[kind |-> "row", url |-> tasks[i].url, title |-> <<>>, run |-> run]>>
    /\ csvExists' = TRUE
    /\ nSaved' = nSaved + 1

\* (variant: the failure escapes process_paper, gather raises in main and
\* the other tasks of the chunk are cancelled)
EndWithoutRow_Escapes(i, res) ==
    /\ tasks' = [k \in 1..Len(tasks) |->
                    IF k = i THEN [tasks[k] EXCEPT !.pc = "done", !.res = res]
                    ELSE IF tasks[k].pc = "done" THEN tasks[k]
                    ELSE [tasks[k] EXCEPT !.pc = "done", !.res = "cancelled"]]
    /\ nExpect' = nExpect - 1
    /\ UNCHANGED <<csv, csvExists, nSaved>>

\* a task ends without reaching save_metadata
EndWithoutRow(i, res) ==
    /\ tasks' = [tasks EXCEPT ![i] = Returned(@, res)]
    /\ nExpect' = nExpect - 1
    /\ UNCHANGED <<csv, csvExists, nSaved>>

\* (variant: download_pdf without the exists check)
FileExists_Never(name) == FALSE

\* os.path.exists(filename)
FileExists(name) == name \in DOMAIN files

\* the task runs up to session.get in fetch_html
StartFetch(i) ==
    /\ tasks[i].pc = "start"
    /\ Acquire
    /\ tasks' = [tasks EXCEPT ![i].pc = "fetching"]
    /\ UNCHANGED <<mainVars, storeVars, histVars>>

\* the page request fails: fetch_html returns None, process_paper returns
FetchFails(i) ==
    /\ tasks[i].pc = "fetching"
    /\ \E f \in FetchFailures : TRUE
    /\ Release
    /\ EndWithoutRow(i, "fetch_failed")
    /\ UNCHANGED <<mainVars, files, fetchedOk, served>>

\* 200 with an empty body: "if not html" returns as for a failed fetch
FetchEmpty(i) ==
    /\ tasks[i].pc = "fetching"
    /\ Release
    /\ EndWithoutRow(i, "empty_body")
    /\ fetchedOk' = fetchedOk \cup {tasks[i].url}
    /\ UNCHANGED <<mainVars, files, served>>

\* 200, and parsing or extraction raises: the except clause of line 146
FetchRaises(i) ==
    /\ tasks[i].pc = "fetching"
    /\ Release
    /\ EndWithoutRow(i, "raised")
    /\ fetchedOk' = fetchedOk \cup {tasks[i].url}
    /\ UNCHANGED <<mainVars, files, served>>

\* 200 and a page: extract, then download_pdf up to its semaphore, or save
FetchPage(i) ==
    /\ tasks[i].pc = "fetching"
    /\ Release
    /\ fetchedOk' = fetchedOk \cup {tasks[i].url}
    /\ \E page \in Pages, ok \in BOOLEAN :
         LET t == [tasks[i] EXCEPT !.title = ExtractTitle(page), !.pdf = page.pdf]
         IN  IF t.pdf = NoPdf
             THEN SaveAndReturn(i, t, "none", ok)
             ELSE IF FileExists(Filename(t))
             THEN SaveAndReturn(i, t, "skipped", ok)
             ELSE /\ tasks' = [tasks EXCEPT ![i] = [t EXCEPT !.pc = "dl_wait"]]
                  /\ UNCHANGED <<csv, csvExists, nSaved, nExpect>>
    /\ UNCHANGED <<mainVars, files, served>>

\* download_pdf passes its semaphore and issues session.get
StartDownload(i) ==
    /\ tasks[i].pc = "dl_wait"
    /\ Acquire
    /\ tasks' = [tasks EXCEPT ![i].pc = "dl_req"]
    /\ UNCHANGED <<mainVars, storeVars, histVars>>

\* files with name holding content
WithFile(name, content) ==
    [f \in DOMAIN files \cup {name} |-> IF f = name THEN content ELSE files[f]]

\* (variant: the failure of the download escapes download_pdf and ends the
\* task in the except clause of process_paper)
DownloadFailed_Escapes(i, ok) ==
    /\ tasks' = [tasks EXCEPT ![i] = [@ EXCEPT !.pc = "done", !.dl = "failed", !.res = "raised"]]
    /\ nExpect' = nExpect - 1
    /\ UNCHANGED <<csv, csvExists, nSaved>>

\* download_pdf logs the failure and returns; process_paper goes on to save
DownloadFailed(i, ok) == SaveAndReturn(i, tasks[i], "failed", ok)

\* the PDF request fails (non-200, or an exception): no file is touched
DownloadFails(i) ==
    /\ tasks[i].pc = "dl_req"
    /\ \E f \in FetchFailures : TRUE
    /\ Release
    /\ \E ok \in BOOLEAN : DownloadFailed(i, ok)
    /\ UNCHANGED <<mainVars, files, fetchedOk, served>>

\* status 200: open(filename, "wb") creates or truncates the file, then the
\* task waits for response.read()
DownloadOpens(i) ==
    /\ tasks[i].pc = "dl_req"
    /\ files' = WithFile(Filename(tasks[i]), <<>>)
    /\ tasks' = [tasks EXCEPT ![i].pc = "dl_read"]
    /\ UNCHANGED <<mainVars, permits, csv, csvExists, histVars>>

\* f.write(data) on a handle opened with "wb": data lands at offset 0 of
\* whatever the file holds by then
WriteAtStart(old, data) == data \o SubSeq(old, Len(data) + 1, Len(old))

\* response.read() returns: write, close, release, save
DownloadWrites(i) ==
    /\ tasks[i].pc = "dl_read"
    /\ files' = WithFile(Filename(tasks[i]),
                         WriteAtStart(files[Filename(tasks[i])], Body(tasks[i].pdf)))
    /\ Release
    /\ \E ok \in BOOLEAN : SaveAndReturn(i, tasks[i], "downloaded", ok)
    /\ UNCHANGED <<mainVars, fetchedOk, served>>

\* response.read() raises (timeout, connection lost): the file stays as opened
DownloadReadFails(i) ==
    /\ tasks[i].pc = "dl_read"
    /\ Release
    /\ \E ok \in BOOLEAN : DownloadFailed(i, ok)
    /\ UNCHANGED <<mainVars, files, fetchedOk, served>>

----------------------------------------------------------------------------
(* main. *)

\* main enters get_year_links: fetch_html of the index page
MainStart ==
    /\ mainPc = "start"
    /\ Acquire
    /\ mainPc' = "index_fetch"
    /\ UNCHANGED <<run, year_links, yi, paper_links, ci, lastFetch, tasks, storeVars, histVars>>

\* the index request fails: fetch_html returns None, get_year_links returns []
IndexFails ==
    /\ mainPc = "index_fetch"
    /\ \E f \in FetchFailures : TRUE
    /\ Release
    /\ year_links' = <<>>
    /\ lastFetch' = "failed"
    /\ mainPc' = "years_found"
    /\ UNCHANGED <<run, yi, paper_links, ci, tasks, storeVars, histVars>>

\* get_year_links returns the links of the index page, sorted descending
IndexReturns ==
    /\ mainPc = "index_fetch"
    /\ Release
    /\ \E links \in SeqsUpTo(YearUrls, MaxYearLinks) :
         year_links' = SortDesc(links)
    /\ lastFetch' = "ok"
    /\ mainPc' = "years_found"
    /\ UNCHANGED <<run, yi, paper_links, ci, tasks, storeVars, histVars>>

\* year_links[:YEARS_TO_SCRAPE]
FirstYears(links) == SubSeq(links, 1, Min(Len(links), YEARS_TO_SCRAPE))

\* year_links = year_links[:YEARS_TO_SCRAPE], and the loop over it begins
SelectYears ==
    /\ mainPc = "years_found"
    /\ year_links' = FirstYears(year_links)
    /\ yi' = 1
    /\ mainPc' = "year_loop"
    /\ UNCHANGED <<run, paper_links, ci, lastFetch, tasks, permits, storeVars, histVars>>

\* for year_url in year_links: fetch_html of the listing, or the loop ends
YearNext ==
    /\ mainPc = "year_loop"
    /\ IF yi <= Len(year_links)
       THEN Acquire /\ mainPc' = "listing_fetch"
       ELSE mainPc' = "done" /\ UNCHANGED permits
    /\ UNCHANGED <<run, year_links, yi, paper_links, ci, lastFetch, tasks, storeVars, histVars>>

\* (variant: get_paper_links without "if not html": parsing None raises in main)
ListingFailed_Raises ==
    /\ mainPc' = "done"
    /\ UNCHANGED <<paper_links, ci>>

\* get_paper_links on html = None: return [], and main goes on with the
\* chunk loop over no links
ListingFailed ==
    /\ paper_links' = <<>>
    /\ ci' = 0
    /\ mainPc' = "chunk_loop"

\* the listing request fails: fetch_html returns None
ListingFails ==
    /\ mainPc = "listing_fetch"
    /\ \E f \in FetchFailures : TRUE
    /\ Release
    /\ lastFetch' = "failed"
    /\ ListingFailed
    /\ UNCHANGED <<run, year_links, yi, tasks, storeVars, histVars>>

\* get_paper_links returns the links of the listing, in page order
ListingReturns ==
    /\ mainPc = "listing_fetch"
    /\ Release
    /\ \E links \in SeqsUpTo(PaperUrls, Min(MaxPaperLinks, MaxLinks - served)) :
         /\ paper_links' = links
         /\ nExpect' = nExpect + Len(links)
         /\ served' = served + Len(links)
    /\ lastFetch' = "ok"
    /\ ci' = 0
    /\ mainPc' = "chunk_loop"
    /\ UNCHANGED <<run, year_links, yi, tasks, storeVars, fetchedOk, nSaved>>

\* paper_links[i:i + chunk_size]
Chunk(links, i) == SubSeq(links, i + 1, Min(i + ChunkSize, Len(links)))

\* for i in range(0, len(paper_links), chunk_size): create the chunk's tasks
\* (they join the tasks of the event loop) and await gather, or go to the
\* next year
ChunkNext ==
    /\ mainPc = "chunk_loop"
    /\ IF ci < Len(paper_links)
       THEN /\ tasks' = tasks \o [k \in 1..Len(Chunk(paper_links, ci)) |->
                                     NewTask(Chunk(paper_links, ci)[k])]
            /\ mainPc' = "gather"
            /\ yi' = yi
       ELSE /\ tasks' = tasks
            /\ mainPc' = "year_loop"
            /\ yi' = yi + 1
    /\ UNCHANGED <<run, year_links, paper_links, ci, lastFetch, permits, storeVars, histVars>>

Alive(t) == t.pc # "done"

\* (variant: the chunk's tasks are started and not awaited)
ChunkFinished_NotAwaited == TRUE

\* await asyncio.gather(*tasks) returns: every task of the chunk has ended
ChunkFinished == \A k \in 1..Len(tasks) : ~Alive(tasks[k])

\* gather returns; sleep(1); next i.  The tasks that have ended are gone.
GatherReturns ==
    /\ mainPc = "gather"
    /\ ChunkFinished
    /\ ci' = ci + ChunkSize
    /\ tasks' = SelectSeq(tasks, Alive)
    /\ mainPc' = "chunk_loop"
    /\ UNCHANGED <<run, year_links, yi, paper_links, lastFetch, permits, storeVars, histVars>>

\* the script is run again in the same directory: a new process, with a
\* new semaphore, over the files the earlier runs left
NewRun ==
    /\ mainPc = "done"
    /\ run < MaxRuns
    /\ run' = run + 1
    /\ mainPc' = "start"
    /\ year_links' = <<>>
    /\ yi' = 1
    /\ paper_links' = <<>>
    /\ ci' = 0
    /\ lastFetch' = "none"
    /\ nExpect' = 0
    /\ fetchedOk' = {}
    /\ tasks' = <<>>
    /\ permits' = MAX_CONCURRENT_REQUESTS
    /\ UNCHANGED <<storeVars, served, nSaved>>

\* a step of the running crawl: main, or one of the chunk's tasks
CrawlStep ==
    \/ MainStart
    \/ IndexFails
    \/ IndexReturns
    \/ SelectYears
    \/ YearNext
    \/ ListingFails
    \/ ListingReturns
    \/ ChunkNext
    \/ GatherReturns
    \/ \E i \in 1..Len(tasks) : StartFetch(i)
    \/ \E i \in 1..Len(tasks) : FetchFails(i)
    \/ \E i \in 1..Len(tasks) : FetchEmpty(i)
    \/ \E i \in 1..Len(tasks) : FetchRaises(i)
    \/ \E i \in 1..Len(tasks) : FetchPage(i)
    \/ \E i \in 1..Len(tasks) : StartDownload(i)
    \/ \E i \in 1..Len(tasks) : DownloadFails(i)
    \/ \E i \in 1..Len(tasks) : DownloadOpens(i)
    \/ \E i \in 1..Len(tasks) : DownloadWrites(i)
    \/ \E i \in 1..Len(tasks) : DownloadReadFails(i)

Next ==
    \/ CrawlStep
    \/ NewRun

Spec == Init /\ [][Next]_vars

\* The event loop runs a coroutine whenever one is ready, and every request
\* ends: with a response, an exception, or the 30 s total timeout of the
\* session.  Running the script again is left to the user.
FairSpec == Spec /\ WF_vars(CrawlStep)

----------------------------------------------------------------------------
(* Properties. *)

Rows == {k \in 1..Len(csv) : csv[k].kind = "row"}
RowsOfRun(r) == {k \in Rows : csv[k].run = r}
Waiting(t) == t.pc \in {"start", "dl_wait"}

\* C1: at every moment the requests in flight, page fetches and PDF
\* downloads counted together, number at most MAX_CONCURRENT_REQUESTS.
C1_GateBound == InFlight <= MAX_CONCURRENT_REQUESTS

\* a PDF download holds the last permit while another task of the chunk waits
C1_Witness ==
    /\ InFlight = MAX_CONCURRENT_REQUESTS
    /\ \E i, j \in 1..Len(tasks) :
         /\ tasks[i].pc \in {"dl_req", "dl_read"}
         /\ Waiting(tasks[j])

\* C2: when main has finished, every paper link enumerated in the run has
\* a row, except the links whose own task failed: no task lost its row
\* through the failure of another.
C2_FailureIsolated == mainPc = "done" => Cardinality(RowsOfRun(run)) = nExpect

\* in a later chunk a task has saved its row although a task of the first
\* chunk of this year failed
C2_Witness ==
    /\ mainPc = "gather"
    /\ yi = 1
    /\ ci >= ChunkSize
    /\ nExpect < Len(paper_links)
    /\ tasks[1].res = "saved"

C4_Idempotent ==
    [][\A i \in 1..Len(tasks) :
         ( /\ tasks[i].pc = "fetching"
           /\ Len(tasks') = Len(tasks)
           /\ tasks'[i].pc # "fetching"
           /\ tasks'[i].pdf # NoPdf
           /\ sanitize_filename(tasks'[i].title) \in DOMAIN files )
         => /\ tasks'[i].pc = "done"
            /\ tasks'[i].dl = "skipped"
            /\ InFlight' = InFlight - 1
            /\ files' = files]_vars

\* a second download of a title was skipped and the file still holds the
\* body the first download wrote
C4_Witness ==
    \E i \in 1..Len(tasks) :
        /\ tasks[i].dl = "skipped"
        /\ \E u \in PdfUrls : files[Filename(tasks[i])] = Body(u)

\* every chunk main hands to gather is the next ChunkSize links of the
\* listing, or what is left of it
ChunksFormed ==
    mainPc = "gather" =>
        /\ ci % ChunkSize = 0
        /\ ci < Len(paper_links)
        /\ Len(tasks) = Min(ChunkSize, Len(paper_links) - ci)
        /\ \A k \in 1..Len(tasks) : tasks[k].url = paper_links[ci + k]

\* C5: the listing is cut into chunks of ChunkSize links, the last one
\* holding the rest, and when main has finished every paper whose page
\* fetch returned 200 has a row in the file.
C5_Orig ==
    /\ ChunksFormed
    /\ mainPc = "done" =>
         \A u \in fetchedOk : \E k \in RowsOfRun(run) : csv[k].url = u

\* C6: every run of main that starts reaches the end of its last year,
\* whatever fails on the way.
C6_Terminates == (mainPc = "start") ~> (mainPc = "done")

\* a run has ended although every paper task of it failed
C6_Witness ==
    /\ mainPc = "done"
    /\ run = 1
    /\ served = MaxLinks
    /\ nExpect = 0

\* a task of the current chunk could not write its row
SaveFailedNow == \E i \in 1..Len(tasks) : tasks[i].res = "save_failed"

\* C7: once save_metadata has failed to write, the run is over: no row is
\* appended, no request is issued and main does not move on.
C7_Orig ==
    [][SaveFailedNow =>
          /\ csv' = csv
          /\ InFlight' <= InFlight
          /\ mainPc' = mainPc]_vars

\* C8: a task whose PDF download fails still calls save_metadata with its
\* record, which is appended unless the write itself fails, and main and
\* the other tasks are left as they were.
C8_DownloadFailureNonFatal ==
    [][\A i \in 1..Len(tasks) :
         ( /\ tasks[i].pc \in {"dl_req", "dl_read"}
           /\ Len(tasks') = Len(tasks)
           /\ tasks'[i].dl = "failed" )
         => /\ tasks'[i].pc = "done"
            /\ tasks'[i].res \in {"saved", "save_failed"}
            /\ tasks'[i].res = "saved" =>
                 /\ Len(csv') >= 2
                 /\ csv'[Len(csv')] = Row(tasks[i])
                 /\ SubSeq(csv', 2, Len(csv') - 1) = SubSeq(csv, 2, Len(csv))
            /\ UNCHANGED mainVars
            /\ \A j \in 1..Len(tasks) : j # i => tasks'[j] = tasks[j]]_vars

\* the row of a paper whose download failed is in the file, and another
\* task of the chunk is still at work
C8_Witness ==
    \E i, j \in 1..Len(tasks) :
        /\ tasks[i].dl = "failed"
        /\ tasks[i].res = "saved"
        /\ \E k \in RowsOfRun(run) : csv[k] = Row(tasks[i])
        /\ tasks[j].pc \in {"fetching", "dl_wait", "dl_req", "dl_read"}

\* C9: no row of the file has an empty title.
C9_Orig == \A k \in Rows : csv[k].title # <<>>

\* C10: no two rows appended in the current run have the same url.
C10_Orig ==
    \A j, k \in RowsOfRun(run) : j # k => csv[j].url # csv[k].url

\* ---------------------------------------------------------------------
\* C11

NonIncreasing(s) == \A a, b \in 1..Len(s) : a < b => s[a] >= s[b]

IsPrefix(s, t) == Len(s) <= Len(t) /\ s = SubSeq(t, 1, Len(s))

YearLoopPcs == {"year_loop", "listing_fetch", "chunk_loop", "gather"}

\* C11: the years are processed one after another, most recent first, and at
\* most YEARS_TO_SCRAPE of them.  The discovered links are in descending
\* order; the links kept are a prefix of at most YEARS_TO_SCRAPE of them and
\* no dropped link is more recent than a kept one; within a run the kept list
\* does not change and the position in it only moves forward by one, once
\* every chunk of the year has been gathered; and a listing is requested only
\* for a position inside the kept list, when no paper task is alive.
C11_YearsInOrder ==
    [][ /\ (mainPc' = "years_found" => NonIncreasing(year_links'))
        /\ (mainPc = "years_found" /\ mainPc' = "year_loop" =>
               /\ IsPrefix(year_links', year_links)
               /\ Len(year_links') = Min(Len(year_links), YEARS_TO_SCRAPE)
               /\ \A a \in 1..Len(year_links'), b \in 1..Len(year_links) :
                     b > Len(year_links') => year_links'[a] >= year_links[b]
               /\ yi' = 1)
        /\ (mainPc \in YearLoopPcs /\ run' = run =>
               /\ year_links' = year_links
               /\ yi' \in {yi, yi + 1}
               /\ (yi' = yi + 1 =>
                     /\ mainPc = "chunk_loop"
                     /\ ci >= Len(paper_links)
                     /\ \A k \in 1..Len(tasks) : ~Alive(tasks[k])))
        /\ (mainPc # "listing_fetch" /\ mainPc' = "listing_fetch" =>
               /\ yi' \in 1..Len(year_links')
               /\ yi' <= YEARS_TO_SCRAPE
               /\ \A k \in 1..Len(tasks') : ~Alive(tasks'[k]))
      ]_vars

\* the listing of the second of two distinct years is requested, after
\* papers of the first one were processed
C11_Witness ==
    /\ mainPc = "listing_fetch"
    /\ yi = 2
    /\ year_links = <<2, 1>>
    /\ served > 0

\* ---------------------------------------------------------------------
\* C12

AliveTasks == {k \in 1..Len(tasks) : Alive(tasks[k])}

\* C12: chunks are separated by a barrier.  Paper tasks are alive only while
\* main awaits gather; the tasks then present are exactly the tasks of the
\* current chunk, one per link of paper_links[ci : ci + chunk_size], so they
\* are at most chunk_size and none of them belongs to another chunk.
C12_ChunkBarrier ==
    /\ Cardinality(AliveTasks) <= ChunkSize
    /\ (AliveTasks # {} => mainPc = "gather")
    /\ (mainPc = "gather" =>
          /\ Len(tasks) = Len(Chunk(paper_links, ci))
          /\ \A k \in 1..Len(tasks) : tasks[k].url = Chunk(paper_links, ci)[k])

\* a task of the second chunk of a listing is fetching its page
C12_Witness ==
    /\ mainPc = "gather"
    /\ ci >= ChunkSize
    /\ \E k \in AliveTasks : tasks[k].pc = "fetching"

\* ---------------------------------------------------------------------
\* C13

\* C13: a failed fetch of a listing page is a value, not an error.  The step
\* in which main's request fails releases the permit and leaves main with an
\* empty list of links (of years after the index, of papers after a year's
\* listing) at the statement after the call; the expected papers do not
\* grow; from there main creates no task and moves to the next year with a
\* permit free for its listing; the run ends only through the year loop.
C13_ListingFailureIsValue ==
    [][ /\ (mainPc = "index_fetch" /\ lastFetch' = "failed" =>
               /\ year_links' = <<>>
               /\ mainPc' = "years_found"
               /\ permits' = permits + 1)
        /\ (mainPc = "listing_fetch" /\ lastFetch' = "failed" =>
               /\ paper_links' = <<>>
               /\ mainPc' = "chunk_loop"
               /\ permits' = permits + 1
               /\ nExpect' = nExpect
               /\ UNCHANGED <<run, year_links, yi, tasks, csv, files>>)
        /\ (mainPc = "chunk_loop" /\ lastFetch = "failed" /\ run' = run =>
               /\ AliveTasks = {}
               /\ tasks' = <<>>
               /\ mainPc' = "year_loop"
               /\ yi' = yi + 1
               /\ permits' = MAX_CONCURRENT_REQUESTS
               /\ UNCHANGED <<year_links, csv, files>>)
        /\ (mainPc' = "done" /\ mainPc # "done" =>
               mainPc = "year_loop" /\ yi > Len(year_links))
      ]_vars

\* the listing of the first year could not be fetched, and the listing of
\* the second year is requested
C13_Witness ==
    /\ mainPc = "listing_fetch"
    /\ lastFetch = "failed"
    /\ yi = 2
    /\ Len(year_links) = 2

\* ---------------------------------------------------------------------
\* C14

\* the page of the task was fetched (200) and nothing could be extracted:
\* extraction raised, or the body was empty
ExtractionFailed(t) == t.res \in {"raised", "empty_body"}

\* C14: a paper task whose page was fetched but whose extraction failed has
\* a row of the current run with its URL and the placeholder title.
C14_Orig ==
    \A i \in 1..Len(tasks) :
        ExtractionFailed(tasks[i]) =>
            \E k \in RowsOfRun(run) :
                csv[k].url = tasks[i].url /\ csv[k].title = UnknownTitle

\* ---------------------------------------------------------------------
\* C15

\* a task of the chunk holds the file open for writing
BeingWritten(name) ==
    \E j \in 1..Len(tasks) : tasks[j].pc = "dl_read" /\ Filename(tasks[j]) = name

\* C15: racing downloads to one filename at worst write the same content
\* twice.  Whatever the interleaving, once no task of the chunk has the file
\* open, the file of every task of the chunk that completed its download
\* holds the document that task downloaded.
C15_Orig ==
    \A i \in 1..Len(tasks) :
        (tasks[i].dl = "downloaded" /\ ~BeingWritten(Filename(tasks[i]))) =>
            files[Filename(tasks[i])] = Body(tasks[i].pdf)

\* ---------------------------------------------------------------------
\* C16

\* C16: a file exists at a destination only if a download to it completed:
\* every file either holds a whole document or is open in a task that is
\* still reading the response body.
C16_Orig ==
    \A name \in DOMAIN files :
        \/ \E u \in PdfUrls : files[name] = Body(u)
        \/ BeingWritten(name)

\* ---------------------------------------------------------------------
\* C17

\* C17: the permits of the gate are conserved: the free permits and the
\* requests in flight add up to MAX_CONCURRENT_REQUESTS, so every request
\* that ended gave its permit back and a task waiting at the gate holds
\* none; and the gate does not deadlock: until main has finished, some step
\* of the crawl can be taken.
C17_PermitsConserved ==
    /\ permits \in 0..MAX_CONCURRENT_REQUESTS
    /\ permits + InFlight = MAX_CONCURRENT_REQUESTS
    /\ (mainPc # "done" => ENABLED CrawlStep)

\* a task that has given back the permit of its page fetch waits at the gate
\* of download_pdf while another task's page fetch holds the last permit
C17_Witness ==
    /\ permits = 0
    /\ \E i, j \in 1..Len(tasks) :
         /\ tasks[i].pc = "dl_wait"
         /\ tasks[j].pc = "fetching"

\* ---------------------------------------------------------------------
\* C18

\* the download step of a task that was at pc ended with outcome dl
DownloadEnded(pc, dl) ==
    \/ pc = "fetching" /\ dl \in {"none", "skipped"}
    \/ pc = "dl_req" /\ dl = "failed"
    \/ pc = "dl_read" /\ dl \in {"downloaded", "failed"}

\* C18: each paper task appends at most one row, and only after its own
\* download step has ended.  A step that changes the metadata file is the
\* last step of exactly one task: its download step has ended (downloaded,
\* skipped, failed, or not attempted, which is the case exactly when no link
\* was found), it appends one row, its own, and returns; a task that has
\* returned does nothing more; and the step in which a task's page fetch
\* fails ends the task from its page request, with no download attempted
\* and the file unchanged.
C18_OneRowAfterDownload ==
    [][ /\ (csv' # csv =>
               /\ Len(tasks') = Len(tasks)
               /\ Cardinality(Rows') = Cardinality(Rows) + 1
               /\ \E i \in 1..Len(tasks) :
                     /\ Alive(tasks[i])
                     /\ tasks'[i].pc = "done"
                     /\ tasks'[i].res = "saved"
                     /\ DownloadEnded(tasks[i].pc, tasks'[i].dl)
                     /\ (tasks'[i].dl = "none" <=> tasks'[i].pdf = NoPdf)
                     /\ csv'[Len(csv')] = Row(tasks'[i])
                     /\ SubSeq(csv', 1, Len(csv)) = csv
                     /\ \A j \in 1..Len(tasks) : j # i => tasks'[j] = tasks[j])
        /\ (Len(tasks') = Len(tasks) =>
               \A i \in 1..Len(tasks) :
                   /\ (~Alive(tasks[i]) => tasks'[i] = tasks[i])
                   /\ (Alive(tasks[i]) /\ tasks'[i].res = "fetch_failed" =>
                         /\ tasks[i].pc = "fetching"
                         /\ tasks'[i].pc = "done"
                         /\ tasks'[i].dl = "none"
                         /\ csv' = csv
                         /\ files' = files))
      ]_vars

\* in one chunk, a task has appended its row after its download completed
\* and another task's page fetch has failed: one row in the current run
C18_Witness ==
    /\ Cardinality(RowsOfRun(run)) = 1
    /\ \E i, j \in 1..Len(tasks) :
         /\ tasks[i].res = "saved"
         /\ tasks[i].dl = "downloaded"
         /\ tasks[j].res = "fetch_failed"

====
